---- MODULE Spec2Model ----
(***************************************************************************)
(* Boundless-DAS alignment search: the run script (run_alignment.py) and   *)
(* the Aligner training loop (trainer.py), as a state machine.             *)
(*                                                                         *)
(* The pretrained model, the tokenizer, the optimizer and the experiment   *)
(* tracker are opaque collaborators.  A forward pass is represented by the *)
(* token ids it ran over, a gradient by the set of training steps whose    *)
(* loss was back-propagated into it, and the value of the alignment        *)
(* parameters by the number of optimizer steps applied to them.            *)
(* The script builds the trainer's Aligner; the class trainer.py defines   *)
(* is AlpacaAligner, whose methods are the ones modelled here.             *)
(* Accuracies are integers in hundredths (0.67 is 67); temperatures are    *)
(* integers in units of 2^-11, in which every bfloat16 value of the        *)
(* schedule range [0.1, 50] is a whole number.                             *)
(***************************************************************************)
EXTENDS Integers, Sequences, FiniteSets, TLC

(***************************************************************************)
(* Bounds of the model.                                                    *)
(***************************************************************************)
MaxTrainLen == 2      \* batches in the train dataloader: 0..MaxTrainLen
MaxEpochs == 2        \* epochs: 1..MaxEpochs
MaxGradAcc == 2       \* gradient_accumulation_steps: 1..MaxGradAcc
MaxLogStep == 2       \* log_step: 1..MaxLogStep
MaxValidSteps == 2    \* valid_steps: 1..MaxValidSteps
MaxEvalLen == 1       \* batches in a non-empty prealign/dev/test dataloader

(***************************************************************************)
(* Program constants.                                                      *)
(***************************************************************************)
temperature_start == 500   \* 50.0, in tenths
temperature_end == 1       \* 0.1, in tenths
n_gpu == 1
is_master == TRUE

NoError == ""

VARIABLES
    args,           \* parsed command line and the dataloader lengths of the run
    disk,           \* files of the run directory, by name
    diskAtStart,    \* the run directory as the current run found it
    rerun,          \* TRUE in a second run over the same output directory
    pc,             \* position of the script
    error,          \* exception that terminated the run, or NoError
    modelLoaded,    \* AutoAlignableModel.from_pretrained has run in this run
    requires_grad,  \* parameter name -> requires_grad flag
    value,          \* parameter name -> value (optimizer steps applied to it)
    grad,           \* training steps whose loss is accumulated in .grad
    optimizer,      \* [params, steps]: parameters held and step() calls
    scheduler,      \* number of scheduler.step() calls
    temperature,    \* temperature held by the model (units of 2^-11)
    training,       \* TRUE in train mode, FALSE in eval mode
    total_step,     \* train(): the step counter
    total_log_step, \* train(): the log counter
    best_eval_acc,  \* train(): best periodic accuracy so far (hundredths)
    temperature_schedule, \* train(): the schedule, as a sequence
    tempPushes,     \* values passed to set_temperature, in call order
    updates,        \* per optimizer step: [step, grads, windowStart]
    lastEval,       \* the latest evaluation pass: [kind, step, acc, saved, ...]
    evalCount,      \* evaluation passes completed in this run, by kind
    evalSteps,      \* train(): the steps at which the dev set was evaluated
    maxSeen,        \* train(): highest dev accuracy reported so far, or -100
    passes,         \* per batch of the last handler: the model calls made
    wandbCalls,     \* calls of the experiment tracker: <<key, step>>
    trainSteps,     \* training batches processed in this run
    lastWrites,     \* writes of the 'last' checkpoint in this run
    cfg,            \* the script's head: task and configuration loading
    metric,         \* an accuracy computation and its reordered repetition
    sample          \* one alignment example being drawn by the task

vars == <<args, disk, diskAtStart, rerun, pc, error, modelLoaded,
          requires_grad, value, grad, optimizer, scheduler, temperature,
          training, total_step, total_log_step, best_eval_acc,
          temperature_schedule, tempPushes, updates, lastEval, evalCount,
          evalSteps, maxSeen, passes, wandbCalls, trainSteps, lastWrites,
          cfg, metric, sample>>

-----------------------------------------------------------------------------
(***************************************************************************)
(* Pure helpers.                                                           *)
(***************************************************************************)

\* Python round(c / t, 2), in hundredths: correctly rounded, ties to even.
\* Exact whenever c / t is a binary fraction or no tie occurs (t < 40).
Round2(c, t) ==
    LET q == (100 * c) \div t
        r == (100 * c) % t
    IN  IF 2 * r < t THEN q
        ELSE IF 2 * r > t THEN q + 1
        ELSE IF q % 2 = 0 THEN q ELSE q + 1

\* Distance between neighbouring bfloat16 values around a / d, in units of
\* 2^-11 (8 significant bits: 128 * sp <= a / d < 256 * sp).
RECURSIVE Bf16Spacing(_, _, _)
Bf16Spacing(a, d, sp) ==
    IF a < 256 * sp * d THEN sp ELSE Bf16Spacing(a, d, 2 * sp)

\* .to(torch.bfloat16) of the rational num / den (0.0625 <= num/den < 2^20):
\* round to nearest, ties to even; the result is in units of 2^-11.
Bf16(num, den) ==
    LET a  == 2048 * num
        sp == Bf16Spacing(a, den, 1)
        b  == den * sp
        q  == a \div b
        r  == a % b
        m  == IF 2 * r < b THEN q
              ELSE IF 2 * r > b THEN q + 1
              ELSE IF q % 2 = 0 THEN q ELSE q + 1
    IN  m * sp

\* Mutant of Linspace: the two ends exchanged.
LinspaceEndsSwapped(start, end, steps, i) ==
    IF steps = 1 THEN <<end, 10>>
    ELSE <<end * (steps - 1) + (start - end) * i, 10 * (steps - 1)>>

\* torch.linspace(start, end, steps)[i] (i from 0) as a rational in tenths:
\* <<numerator, denominator>> of the value itself.
Linspace(start, end, steps, i) ==
    IF steps = 1 THEN <<start, 10>>
    ELSE <<start * (steps - 1) + (end - start) * i, 10 * (steps - 1)>>

\* torch.linspace(temperature_start, temperature_end,
\*                target_total_step).to(torch.bfloat16)
TemperatureSchedule(target_total_step) ==
    [k \in 1..target_total_step |->
        LET v == Linspace(temperature_start, temperature_end,
                          target_total_step, k - 1)
        IN  Bf16(v[1], v[2])]

\* tokenizer.batch_decode on last-position tokens, and str.lower().
Decode(tok) == CASE tok = 1 -> "Yes" [] tok = 2 -> "No" [] tok = 3 -> "yes"
                 [] OTHER -> "?"
Lower(str) == CASE str = "Yes" -> "yes" [] str = "No" -> "no" [] OTHER -> str

TargetTokens == {1, 2}
PredTokens == {2, 3}

\* correct_labels.sum() for one batch: zip(target_decoded, pred_decoded).
CorrectCount(targets, preds) ==
    LET n == IF Len(targets) < Len(preds) THEN Len(targets) ELSE Len(preds)
    IN  Cardinality({i \in 1..n :
                       Lower(Decode(targets[i])) = Lower(Decode(preds[i]))})
ZipLen(targets, preds) ==
    IF Len(targets) < Len(preds) THEN Len(targets) ELSE Len(preds)

RECURSIVE SumSeq(_)
SumSeq(s) == IF s = <<>> THEN 0 ELSE s[1] + SumSeq(Tail(s))

(***************************************************************************)
(* Batches as the task's prepare_dataloader builds them.  The k-th batch   *)
(* of a loader is fixed; odd batches hold one example whose source         *)
(* sequence differs from the base sequence, even batches two examples      *)
(* whose source sequence equals the base sequence.                         *)
(***************************************************************************)
BatchLabels(k) == IF k % 2 = 1 THEN <<1>> ELSE <<2, 1>>

PrealignBatchAt(k) ==
    [input_ids |-> k,
     labels |-> BatchLabels(k),
     output_only_labels |-> BatchLabels(k)]

BatchAt(k) ==
    [input_ids |-> k,
     labels |-> BatchLabels(k),
     output_only_labels |-> BatchLabels(k),
     source_input_ids |-> IF k % 2 = 1 THEN k + 10 ELSE k,
     intervention_ids |-> 0]

PrealignLoader(n) == [k \in 1..n |-> PrealignBatchAt(k)]
Loader(n) == [k \in 1..n |-> BatchAt(k)]

\* Model predictions for every example of every batch of a loader.
PredsOf(loader) ==
    {f \in [DOMAIN loader -> UNION {[1..m -> PredTokens] : m \in 1..2}] :
        \A k \in DOMAIN loader : Len(f[k]) = Len(loader[k].labels)}

-----------------------------------------------------------------------------
(***************************************************************************)
(* The model wrapper and its parameters.                                   *)
(***************************************************************************)

\* model.named_parameters(): names as sequences of their dotted components.
ParamNames ==
    {<<"model", "rotate_layer", "parametrizations", "weight", "original">>,
     <<"model", "intervention_boundaries">>,
     <<"model", "embed_tokens", "weight">>,
     <<"model", "layers", "0", "mlp", "weight">>,
     <<"lm_head", "weight">>}

\* "part" in name
Contains(name, part) == \E i \in DOMAIN name : name[i] = part

\* module.parameters() of the sub-module at path
Under(path) ==
    {p \in ParamNames :
        Len(p) >= Len(path) /\ SubSeq(p, 1, Len(path)) = path}

\* Mutant of Freeze: the test on "rotate_layer" lost its negation.
FreezeRotationInstead(loaded) ==
    [p \in ParamNames |->
        IF Contains(p, "rotate_layer")
           /\ ~Contains(p, "intervention_boundaries")
        THEN FALSE
        ELSE loaded[p]]

\* The one-time freezing pass over the freshly loaded model.
Freeze(loaded) ==
    [p \in ParamNames |->
        IF ~Contains(p, "rotate_layer")
           /\ ~Contains(p, "intervention_boundaries")
        THEN FALSE
        ELSE loaded[p]]

\* The parameter groups handed to torch.optim.Adam.
OptimizerParams ==
    Under(<<"model", "rotate_layer">>)
        \cup Under(<<"model", "intervention_boundaries">>)

\* Accessors of the wrapper.
get_rotation_parameters(val) ==
    [p \in Under(<<"model", "rotate_layer">>) |-> val[p]]
get_boundary_parameters(val) == val[<<"model", "intervention_boundaries">>]
get_learnable_alignment_parameters ==
    Under(<<"model", "rotate_layer">>)
        \cup Under(<<"model", "intervention_boundaries">>)

\* The temperature a freshly loaded wrapper holds.
LoadedTemperature == Bf16(temperature_start, 10)

(***************************************************************************)
(* call_model: what is handed to the underlying model.                     *)
(***************************************************************************)
NoKwargs ==
    [output_rotated_hidden_states_only |-> FALSE,
     source_hidden_states |-> 0,      \* ids the hidden states came from
     intervention_ids |-> -1]

NoCall ==
    [raises |-> NoError, call |-> "none", input_ids |-> 0,
     has_labels |-> FALSE, labels |-> <<>>, kwargs |-> NoKwargs]

CallModel(model_type, inputs, has_labels, labels, is_train, kwargs) ==
    IF model_type = "t5" THEN
        IF "attention_masks" \notin DOMAIN inputs
        THEN [NoCall EXCEPT !.raises = "KeyError"]
        ELSE IF is_train
        THEN [raises |-> NoError, call |-> "forward",
              input_ids |-> inputs.input_ids, has_labels |-> TRUE,
              labels |-> inputs.output_only_labels, kwargs |-> kwargs]
        ELSE [raises |-> NoError, call |-> "generate",
              input_ids |-> inputs.input_ids, has_labels |-> FALSE,
              labels |-> <<>>, kwargs |-> kwargs]
    ELSE IF model_type = "llama" THEN
        IF has_labels
        THEN [raises |-> NoError, call |-> "forward",
              input_ids |-> inputs.input_ids, has_labels |-> TRUE,
              labels |-> labels, kwargs |-> kwargs]
        ELSE [raises |-> NoError, call |-> "forward",
              input_ids |-> inputs.input_ids, has_labels |-> FALSE,
              labels |-> <<>>, kwargs |-> kwargs]
    ELSE [NoCall EXCEPT !.raises = "ValueError"]

\* .rotated_hidden_states of a pass: identified by the ids the pass ran over.
RotatedHiddenStates(out) == out.input_ids

\* The source pass and the intervened pass of one batch, as train() and its
\* evaluations issue them.
SourcePass(model_type, inputs) ==
    CallModel(model_type, inputs, FALSE, <<>>, TRUE,
              [NoKwargs EXCEPT !.output_rotated_hidden_states_only = TRUE])

IntervenedPass(model_type, inputs, source_hidden_states, is_train) ==
    CallModel(model_type, inputs, TRUE, inputs.labels, is_train,
              [NoKwargs EXCEPT
                  !.source_hidden_states = source_hidden_states,
                  !.intervention_ids = inputs.intervention_ids])

PassRecord(phase, k, inputs, src, out) ==
    [phase |-> phase, batch |-> k,
     input_ids |-> inputs.input_ids,
     source_input_ids |-> IF "source_input_ids" \in DOMAIN inputs
                          THEN inputs.source_input_ids ELSE 0,
     source_pass |-> src, intervened_pass |-> out]

\* The two passes over every batch of an evaluation loader.
EvalPasses(phase, model_type, loader) ==
    [k \in DOMAIN loader |->
        LET src == SourcePass(model_type, loader[k])
            out == IntervenedPass(model_type, loader[k],
                                  RotatedHiddenStates(src), FALSE)
        IN  PassRecord(phase, k, loader[k], src, out)]

\* Mutant of PrealignPasses: the call carries an intervention.
PrealignPassesIntervened(model_type, loader) ==
    [k \in DOMAIN loader |->
        PassRecord("prealign", k, loader[k], NoCall,
                   CallModel(model_type, loader[k], FALSE, <<>>, FALSE,
                             [NoKwargs EXCEPT
                                 !.source_hidden_states = loader[k].input_ids,
                                 !.intervention_ids = 0]))]

\* The single un-intervened call per batch of prealign_eval.
PrealignPasses(model_type, loader) ==
    [k \in DOMAIN loader |->
        PassRecord("prealign", k, loader[k], NoCall,
                   CallModel(model_type, loader[k], FALSE, <<>>, FALSE,
                             NoKwargs))]

\* First exception raised by the model calls of a sequence of pass records.
FirstRaise(ps) ==
    IF \E k \in DOMAIN ps : ps[k].source_pass.raises # NoError
                            \/ ps[k].intervened_pass.raises # NoError
    THEN LET k == CHOOSE j \in DOMAIN ps :
                    /\ ps[j].source_pass.raises # NoError
                       \/ ps[j].intervened_pass.raises # NoError
                    /\ \A i \in 1..(j - 1) :
                          /\ ps[i].source_pass.raises = NoError
                          /\ ps[i].intervened_pass.raises = NoError
         IN  IF ps[k].source_pass.raises # NoError
             THEN ps[k].source_pass.raises
             ELSE ps[k].intervened_pass.raises
    ELSE NoError

\* total_count and correct_count accumulated over a loader.
TotalCount(loader, preds) ==
    SumSeq([k \in DOMAIN loader |-> ZipLen(loader[k].labels, preds[k])])

\* Mutant of CorrectTotal: each batch assigns correct_count (= for +=).
CorrectTotalLastBatch(loader, preds) ==
    IF loader = <<>> THEN 0
    ELSE CorrectCount(loader[Len(loader)].labels, preds[Len(loader)])

CorrectTotal(loader, preds) ==
    SumSeq([k \in DOMAIN loader |->
                CorrectCount(loader[k].labels, preds[k])])

(***************************************************************************)
(* Files of the run directory.                                             *)
(***************************************************************************)
NoCheckpoint ==
    [exists |-> FALSE,
     rotate_layer |-> [p \in Under(<<"model", "rotate_layer">>) |-> 0],
     intervention_boundaries |-> 0, temperature |-> 0]
NoLog == [exists |-> FALSE, header |-> "", rows |-> <<>>]

EmptyDisk ==
    [best |-> NoCheckpoint, last |-> NoCheckpoint,
     prealign_log |-> NoLog, train_log |-> NoLog, eval_log |-> NoLog,
     das_config |-> FALSE, output_dir |-> FALSE]

\* Mutant of Checkpoint: the blob is written without the temperature.
CheckpointWithoutTemperature(val, temp) ==
    [exists |-> TRUE,
     rotate_layer |-> get_rotation_parameters(val),
     intervention_boundaries |-> get_boundary_parameters(val),
     temperature |-> 0]

\* save_model: the blob torch.save writes (both n_gpu branches store the
\* same three entries).
Checkpoint(val, temp) ==
    IF n_gpu > 1
    THEN [exists |-> TRUE,
          rotate_layer |-> [p \in Under(<<"model", "rotate_layer">>) |-> val[p]],
          intervention_boundaries |-> val[<<"model", "intervention_boundaries">>],
          temperature |-> temp]
    ELSE [exists |-> TRUE,
          rotate_layer |-> get_rotation_parameters(val),
          intervention_boundaries |-> get_boundary_parameters(val),
          temperature |-> temp]

\* open(path, 'w') + header line, and open(path, 'a') + one row.  A row is
\* kept by its first column, the step; the logged values are not read back.
NewLog(header) == [exists |-> TRUE, header |-> header, rows |-> <<>>]
AppendRow(log, row) ==
    [exists |-> TRUE, header |-> log.header, rows |-> Append(log.rows, row)]

-----------------------------------------------------------------------------
(***************************************************************************)
(* The head of the run script: task selection and configuration loading.   *)
(* A task name and a file path are sequences of their components, so that  *)
(* Python's substring test and os.path work on them as they do on strings. *)
(***************************************************************************)
das_layer == 15                    \* AlignableLlamaConfig's default layer
das_token_range == <<80, 81>>      \* and its default token range

\* The das_config files a model directory can hold: the class defaults, and
\* a search at layer 0 over tokens 0..2.
SavedConfigs ==
    {[das_layer |-> das_layer, das_token_range |-> das_token_range],
     [das_layer |-> 0, das_token_range |-> <<0, 3>>]}

TaskNames ==
    {<<"price_tagging", "lb">>, <<"continent_matching", "continent_map">>,
     <<"sentiment">>}

\* The parsed command line, as far as the head of the script reads it.
CliSet ==
    [model_type : {"llama", "t5", "gpt2"},
     task_name : TaskNames,
     layer : {-1, 0},
     token_start : {-1, 0, 3},
     token_end : {-1, 0},
     seed : {0, 1},
     model_path : {<<"..", "alpaca_7b", "">>, <<"alpaca_7b">>},
     output_dir : {<<".", "results_notebook">>},
     lr : {1, 2}]

NoRaise == [type |-> "", names |-> <<>>]
\* An exception, by its type and the value its message names.
Raise(type, names) == [type |-> type, names |-> names]

\* get_task(args): the task object, None when the function falls off its
\* end, or the exception raised.
GetTask(a) ==
    IF Contains(a.task_name, "price_tagging")
    THEN IF a.model_type \in {"t5", "llama"}
         THEN [raises |-> NoRaise, task |-> "PriceTaggingTask"]
         ELSE [raises |-> NoRaise, task |-> "None"]
    ELSE IF Contains(a.task_name, "continent_matching")
    THEN IF a.model_type \in {"t5", "llama"}
         THEN [raises |-> NoRaise, task |-> "ContinentMatchingTask"]
         ELSE [raises |-> Raise("ValueError", <<a.model_type>>),
               task |-> "unbound"]
    ELSE [raises |-> Raise("ValueError", a.task_name), task |-> "unbound"]

\* task.prepare_dataloader(tokenizer, **vars(args)): the attribute lookup
\* on the task object.
PrepareDataloader(task) ==
    IF task = "None" THEN Raise("AttributeError", <<"prepare_dataloader">>)
    ELSE NoRaise

NoAlignment == [layer |-> -1, token_range |-> <<-1, -1>>]
NoDasConfig == [das_layer |-> -1, das_token_range |-> <<-1, -1>>]

\* Mutant of Override: a command-line value of 0 does not override.
OverridePositive(cli_value, saved_value) ==
    IF cli_value > 0 THEN cli_value ELSE saved_value

\* if args.x >= 0: alignment_config[x] = args.x
Override(cli_value, saved_value) ==
    IF cli_value >= 0 THEN cli_value ELSE saved_value

\* get_das_and_alignment_config(args), saved being the das_config file of
\* args.model_path.  alignment_config holds a list of its own, so the
\* assignments into it leave the loaded das_config as it was read.  The
\* message of the last branch is built from the name model_type, which no
\* scope binds when the script makes this call.
GetDasAndAlignmentConfig(a, saved) ==
    IF a.model_type \in {"llama", "t5"}
    THEN [raises |-> NoRaise,
          das_config |-> saved,
          alignment_config |->
              [layer |-> Override(a.layer, saved.das_layer),
               token_range |->
                   <<Override(a.token_start, saved.das_token_range[1]),
                     Override(a.token_end, saved.das_token_range[2])>>]]
    ELSE [raises |-> Raise("NameError", <<"model_type">>),
          das_config |-> NoDasConfig,
          alignment_config |-> NoAlignment]

\* os.path.normpath on a relative path without '..' after a name: empty and
\* '.' components go.
Normpath(path) == SelectSeq(path, LAMBDA c : c # "" /\ c # ".")
\* os.path.basename: the last component.
Basename(path) == IF path = <<>> THEN "" ELSE path[Len(path)]

\* Mutant of RunName: the name carries the command-line layer.
RunNameFromCli(model_base_name, a, alignment_config) ==
    <<"model:", model_base_name, "_task:", a.task_name, "_seed:", a.seed,
      "_intl:", a.layer, "_intr:", alignment_config.token_range[1], ",",
      alignment_config.token_range[2]>>

\* The f-string run_name, by its literal and formatted parts.
RunName(model_base_name, a, alignment_config) ==
    <<"model:", model_base_name, "_task:", a.task_name, "_seed:", a.seed,
      "_intl:", alignment_config.layer, "_intr:",
      alignment_config.token_range[1], ",",
      alignment_config.token_range[2]>>

\* os.path.join(args.output_dir, run_name)
OutputDir(a, run_name) == [parent |-> a.output_dir, name |-> run_name]

DefaultCli ==
    [model_type |-> "llama", task_name |-> <<"price_tagging", "lb">>,
     layer |-> -1, token_start |-> -1, token_end |-> -1, seed |-> 0,
     model_path |-> <<"..", "alpaca_7b", "">>,
     output_dir |-> <<".", "results_notebook">>, lr |-> 1]

NoDir == [parent |-> <<>>, name |-> <<>>]

\* What an earlier run of the script was started with and arrived at.
NoPrev ==
    [ran |-> FALSE, model_type |-> "", model_base_name |-> "",
     task_name |-> <<>>, seed |-> 0, alignment_config |-> NoAlignment,
     run_name |-> <<>>, output_dir |-> NoDir, wandb_name |-> <<>>,
     model_name |-> <<>>]

\* The head of the script before it starts, over the das_config file saved.
CfgStart(a, saved, prev) ==
    [pc |-> "start", cli |-> a, saved |-> saved, task |-> "unbound",
     das_config |-> NoDasConfig, alignment_config |-> NoAlignment,
     model_base_name |-> "", run_name |-> <<>>, output_dir |-> NoDir,
     wandb_name |-> <<>>, model_name |-> <<>>,
     raised |-> NoRaise, prev |-> prev]

\* The head of the script is not under study.
NoCfg ==
    [CfgStart(DefaultCli,
              [das_layer |-> das_layer, das_token_range |-> das_token_range],
              NoPrev)
       EXCEPT !.pc = "idle"]


(***************************************************************************)
(* The accuracy computation on its own: an evaluation set, the model's     *)
(* predictions for it, and the same set in another order.                  *)
(***************************************************************************)
MaxMetricBatches == 2     \* batches in the evaluation set: 1..MaxMetricBatches

\* Evaluation sets of n batches of one or two examples.
LoadersOf(n) ==
    {[k \in 1..n |-> [PrealignBatchAt(k) EXCEPT !.labels = l[k],
                                                !.output_only_labels = l[k]]] :
        l \in [1..n -> UNION {[1..m -> TargetTokens] : m \in 1..2}]}

\* The evaluation loops of prealign_eval and train(): the counts and the
\* accuracy reported.
Counts(loader, preds) ==
    [correct_count |-> CorrectTotal(loader, preds),
     total_count |-> TotalCount(loader, preds),
     current_acc |-> Round2(CorrectTotal(loader, preds),
                            TotalCount(loader, preds))]

\* compute_metrics(eval_preds, eval_labels): token ids compared as they are.
compute_metrics(eval_preds, eval_labels) ==
    LET n == IF Len(eval_preds) < Len(eval_labels)
             THEN Len(eval_preds) ELSE Len(eval_labels)
        correct_labels(k) ==
            {i \in 1..ZipLen(eval_labels[k], eval_preds[k]) :
                eval_labels[k][i] = eval_preds[k][i]}
        total_count ==
            SumSeq([k \in 1..n |-> ZipLen(eval_labels[k], eval_preds[k])])
        correct_count ==
            SumSeq([k \in 1..n |-> Cardinality(correct_labels(k))])
    IN  [accuracy |-> Round2(correct_count, total_count)]

Perms(S) == {f \in [S -> S] : \A i, j \in S : f[i] = f[j] => i = j}

NoCounts == [correct_count |-> 0, total_count |-> 0, current_acc |-> 0]
NoMetric ==
    [pc |-> "idle", loader |-> <<>>, preds |-> <<>>,
     loader2 |-> <<>>, preds2 |-> <<>>,
     first |-> NoCounts, second |-> NoCounts,
     first_metrics |-> [accuracy |-> 0], second_metrics |-> [accuracy |-> 0]]

(***************************************************************************)
(* The continent-matching task drawing one alignment example.  A random    *)
(* choice is the set of what it can return.                                *)
(***************************************************************************)
_YES_LABEL == "Yes"
_NO_LABEL == "No"

\* countries_continents.csv, cut down to five countries of three continents.
country_to_continent ==
    [c \in {"Kenya", "Ghana", "Japan", "India", "Peru"} |->
        CASE c \in {"Kenya", "Ghana"} -> "Africa"
          [] c \in {"Japan", "India"} -> "Asia"
          [] OTHER -> "South America"]
countries == DOMAIN country_to_continent
continents == {country_to_continent[c] : c \in countries}
continent_to_country ==
    [k \in continents |-> {c \in countries : country_to_continent[c] = k}]

\* _sample_not_in_continent(continent)
SampleNotInContinent(continent) ==
    UNION {continent_to_country[k] : k \in continents \ {continent}}

NoSource ==
    [raised |-> NoRaise, source_country1 |-> "", source_country2 |-> "",
     source_label |-> ""]

\* _are_same_continent(country1, country2): its body reads countryt2, a
\* name bound neither in the function nor in the module.
AreSameContinent(country1, country2) ==
    IF "countryt2" \in {"self", "country1", "country2"}
    THEN [raised |-> NoRaise,
          result |-> country_to_continent[country1]
                       = country_to_continent[country2]]
    ELSE [raised |-> Raise("NameError", <<"countryt2">>), result |-> FALSE]

\* output_rep_source_sampler(base_country1, base_country2, ctf_label_str)
OutputRepSourceSampler(base_country1, base_country2, ctf_label_str) ==
    {[raised |-> NoRaise, source_country1 |-> c1, source_country2 |-> c2,
      source_label |-> ctf_label_str] :
        <<c1, c2>> \in
          {p \in countries \X countries :
             p[2] \in (IF ctf_label_str = _NO_LABEL
                       THEN SampleNotInContinent(country_to_continent[p[1]])
                       ELSE continent_to_country[
                                country_to_continent[p[1]]])}}

\* continent1_source_sampler(base_country1, base_country2, ctf_label_str):
\* both branches start by reading base_continent2, which is a local of
\* alignment_example_sampler and no name of this function; past that, the
\* label comes from _are_same_continent.
Continent1SourceSampler(base_country1, base_country2, ctf_label_str) ==
    IF "base_continent2" \notin
         {"self", "base_country1", "base_country2", "ctf_label_str"}
    THEN {[NoSource EXCEPT
             !.raised = Raise("NameError", <<"base_continent2">>)]}
    ELSE {[NoSource EXCEPT
             !.raised = AreSameContinent(base_country1, base_country2).raised]}

\* The source sampler prepare_dataloader hands to alignment_example_sampler.
SourceSampler(name, base_country1, base_country2, ctf_label_str) ==
    IF name = "continent1_source_sampler"
    THEN Continent1SourceSampler(base_country1, base_country2, ctf_label_str)
    ELSE OutputRepSourceSampler(base_country1, base_country2, ctf_label_str)

NoSample ==
    [pc |-> "idle", sampler |-> "", base_country1 |-> "",
     base_country2 |-> "", ctf_label_str |-> "", source |-> NoSource]

-----------------------------------------------------------------------------
(***************************************************************************)
(* The run script and the Aligner.                                         *)
(***************************************************************************)
ArgsSet ==
    [model_type : {"llama", "t5"},
     is_wandb : BOOLEAN,
     do_align : BOOLEAN,
     log_step : 1..MaxLogStep,
     valid_steps : 1..MaxValidSteps,
     epochs : 1..MaxEpochs,
     gradient_accumulation_steps : 1..MaxGradAcc,
     nTrain : 0..MaxTrainLen,      \* len(train_dataloader)
     nPrealign : {0, MaxEvalLen},  \* len(prealign_dataloader)
     nDev : {0, MaxEvalLen},       \* len(dev_dataloader)
     nTest : {0, MaxEvalLen}]      \* len(test_dataloader)

NoEval ==
    [kind |-> "none", step |-> 0, acc |-> 0, saved |-> FALSE,
     seen_before |-> -100, opt_steps |-> 0]
evalVars == <<lastEval, evalCount, evalSteps, maxSeen>>

\* The memory of a process that has not started yet.
ProcessStart ==
    /\ pc' = "init"
    /\ error' = NoError
    /\ modelLoaded' = FALSE
    /\ requires_grad' = [p \in ParamNames |-> TRUE]
    /\ value' = [p \in ParamNames |-> 0]
    /\ grad' = [p \in ParamNames |-> {}]
    /\ optimizer' = [params |-> {}, steps |-> 0]
    /\ scheduler' = 0
    /\ temperature' = LoadedTemperature
    /\ training' = FALSE
    /\ total_step' = 0
    /\ total_log_step' = 0
    /\ best_eval_acc' = -100
    /\ temperature_schedule' = <<>>
    /\ tempPushes' = <<>>
    /\ updates' = <<>>
    /\ lastEval' = NoEval
    /\ evalCount' = [prealign |-> 0, dev |-> 0, test |-> 0]
    /\ evalSteps' = {}
    /\ maxSeen' = -100
    /\ passes' = <<>>
    /\ wandbCalls' = <<>>
    /\ trainSteps' = 0
    /\ lastWrites' = 0

\* The run directory and the process memory before the first run.
FreshProcess ==
    /\ disk = EmptyDisk
    /\ diskAtStart = EmptyDisk
    /\ rerun = FALSE
    /\ pc = "init"
    /\ error = NoError
    /\ modelLoaded = FALSE
    /\ requires_grad = [p \in ParamNames |-> TRUE]
    /\ value = [p \in ParamNames |-> 0]
    /\ grad = [p \in ParamNames |-> {}]
    /\ optimizer = [params |-> {}, steps |-> 0]
    /\ scheduler = 0
    /\ temperature = LoadedTemperature
    /\ training = FALSE
    /\ total_step = 0
    /\ total_log_step = 0
    /\ best_eval_acc = -100
    /\ temperature_schedule = <<>>
    /\ tempPushes = <<>>
    /\ updates = <<>>
    /\ lastEval = NoEval
    /\ evalCount = [prealign |-> 0, dev |-> 0, test |-> 0]
    /\ evalSteps = {}
    /\ maxSeen = -100
    /\ passes = <<>>
    /\ wandbCalls = <<>>
    /\ trainSteps = 0
    /\ lastWrites = 0

Init ==
    /\ args \in ArgsSet
    /\ FreshProcess
    /\ cfg = NoCfg
    /\ metric = NoMetric
    /\ sample = NoSample

\* The variables train() works on.
trainVars == <<total_step, total_log_step, best_eval_acc,
               temperature_schedule, tempPushes, updates, trainSteps,
               lastWrites>>
\* The learnable state and what drives it.
learnVars == <<value, grad, optimizer, scheduler, temperature>>

\* Mutant of AfterPrealign: a prealign accuracy of 0 ends the run.
AfterPrealignGated(do_align, current_acc) ==
    IF do_align /\ current_acc > 0 THEN "prealigned" ELSE "done"

\* Where the script goes once prealign_eval has returned its accuracy:
\* into train() if alignment is requested, to its end otherwise.
AfterPrealign(do_align, current_acc) ==
    IF do_align THEN "prealigned" ELSE "done"

\* Mutant of SkipRun: the check looks for the 'best' checkpoint.
SkipRunOnBest(dsk) == dsk.best.exists

\* The check for a finished run of the same identity.
SkipRun(dsk) == dsk.last.exists

\* run_alignment.py from the data loaders to the Aligner's construction.
Startup ==
    /\ pc = "init"
    /\ diskAtStart' = disk
    /\ IF SkipRun(disk)
       THEN /\ pc' = "skipped"
            /\ disk' = [disk EXCEPT !.output_dir = TRUE]
            /\ UNCHANGED <<modelLoaded, requires_grad, optimizer, wandbCalls>>
       ELSE /\ pc' = "constructed"
            /\ disk' = [disk EXCEPT !.output_dir = TRUE, !.das_config = TRUE]
            /\ modelLoaded' = TRUE
            /\ requires_grad' = Freeze([p \in ParamNames |-> TRUE])
            /\ optimizer' = [params |-> OptimizerParams, steps |-> 0]
            /\ wandbCalls' = IF args.is_wandb
                             THEN <<<<"init", 0>>, <<"init", 0>>>>
                             ELSE <<>>
    /\ UNCHANGED <<cfg, metric, sample>>
    /\ UNCHANGED <<args, rerun, error, value, grad, scheduler, temperature,
                   training, passes>>
    /\ UNCHANGED evalVars
    /\ UNCHANGED trainVars

\* prealign_eval(prealign_dataloader, output_dir)
PrealignEval ==
    /\ pc = "constructed"
    /\ LET loader == PrealignLoader(args.nPrealign)
           ps == PrealignPasses(args.model_type, loader)
           raised == FirstRaise(ps)
       IN  \E preds \in PredsOf(loader) :
             LET total_count == TotalCount(loader, preds)
                 correct_count == CorrectTotal(loader, preds)
             IN
             /\ training' = FALSE
             /\ passes' = ps
             /\ IF raised # NoError \/ total_count = 0
                THEN /\ pc' = "crashed"
                     /\ error' = IF raised # NoError THEN raised
                                 ELSE "ZeroDivisionError"
                     /\ UNCHANGED <<disk, wandbCalls>>
                     /\ UNCHANGED evalVars
                ELSE LET current_acc == Round2(correct_count, total_count)
                     IN
                     /\ pc' = AfterPrealign(args.do_align, current_acc)
                     /\ error' = NoError
                     /\ lastEval' = [kind |-> "prealign", step |-> 0,
                                     acc |-> current_acc, saved |-> FALSE,
                                     seen_before |-> maxSeen,
                                     opt_steps |-> optimizer.steps]
                     /\ evalCount' = [evalCount EXCEPT !.prealign = @ + 1]
                     /\ UNCHANGED <<evalSteps, maxSeen>>
                     /\ IF is_master /\ ~args.is_wandb
                        THEN /\ disk' = [disk EXCEPT !.prealign_log =
                                           AppendRow(NewLog(""), 0)]
                             /\ UNCHANGED wandbCalls
                        ELSE IF args.is_wandb
                        THEN /\ wandbCalls' = Append(wandbCalls,
                                                <<"eval/prealign_accuracy", 0>>)
                             /\ UNCHANGED disk
                        ELSE UNCHANGED <<disk, wandbCalls>>
    /\ UNCHANGED <<cfg, metric, sample>>
    /\ UNCHANGED <<args, diskAtStart, rerun, modelLoaded, requires_grad>>
    /\ UNCHANGED learnVars
    /\ UNCHANGED trainVars

\* train(): from its entry to the first set_temperature (before the loop).
TrainBegin ==
    /\ pc = "prealigned"
    /\ LET target_total_step == args.nTrain * args.epochs
           schedule == TemperatureSchedule(target_total_step)
       IN
       /\ disk' = IF is_master /\ ~args.is_wandb
                  THEN [disk EXCEPT
                          !.train_log = NewLog("step,loss,accuracy"),
                          !.eval_log = NewLog("step,accuracy")]
                  ELSE disk
       /\ training' = TRUE
       /\ total_step' = 0
       /\ total_log_step' = 0
       /\ best_eval_acc' = -100
       /\ temperature_schedule' = schedule
       /\ IF 0 + 1 \in DOMAIN schedule
          THEN /\ temperature' = schedule[0 + 1]
               /\ tempPushes' = Append(tempPushes, schedule[0 + 1])
               /\ pc' = "training"
               /\ error' = NoError
          ELSE /\ pc' = "crashed"
               /\ error' = "IndexError"
               /\ UNCHANGED <<temperature, tempPushes>>
    /\ UNCHANGED <<cfg, metric, sample>>
    /\ UNCHANGED <<args, diskAtStart, rerun, modelLoaded, requires_grad,
                   value, grad, optimizer, scheduler, updates, passes,
                   wandbCalls, trainSteps, lastWrites>>
    /\ UNCHANGED evalVars

\* Mutant of UpdateAt: step 0 updates under accumulation too.
UpdateAtEveryMultiple(step, gradient_accumulation_steps) ==
    step % gradient_accumulation_steps = 0

\* The step at which the optimizer is stepped.
UpdateAt(step, gradient_accumulation_steps) ==
    /\ step % gradient_accumulation_steps = 0
    /\ ~(gradient_accumulation_steps > 1 /\ step = 0)

\* The step at which the log branch is entered, and, nested in it, the step
\* at which the dev set is evaluated.
LogAt(step, log_step) == is_master /\ step % log_step = 0
EvalAt(step, log_step, valid_steps) ==
    /\ LogAt(step, log_step)
    /\ step # 0
    /\ step % valid_steps = 0

\* Steps whose loss is in .grad after loss.backward(inputs=...) at step.
Backward(g, step) ==
    [p \in ParamNames |->
        IF p \in get_learnable_alignment_parameters
        THEN g[p] \cup {step} ELSE g[p]]

\* optimizer.step(): parameters of the groups that hold a gradient move.
OptimizerStep(val, g, params) ==
    [p \in ParamNames |->
        IF p \in params /\ g[p] # {} THEN val[p] + 1 ELSE val[p]]

\* Mutant of Improves: the best accuracy counts from 0, not from -1.
ImprovesFromZero(current_acc, best) ==
    current_acc > (IF best < 0 THEN 0 ELSE best)

\* Mutant of Improves: a tie counts as an improvement.
ImprovesOrTies(current_acc, best) == current_acc >= best

\* An evaluation improves on the best accuracy so far.
Improves(current_acc, best) == current_acc > best

\* Mutant of ModeAfterEval: train mode comes back with the 'best' write only.
ModeAfterEvalIfSaved(improved) == improved

\* self.model.train() closes the periodic evaluation, after the branch that
\* saves 'best' and outside it: TRUE is train mode.
ModeAfterEval(improved) == TRUE

\* Mutant of ScheduleIndex: the schedule is read at the step to come.
ScheduleIndexNext(step) == step + 1

\* The index at which the update of a step reads temperature_schedule:
\* total_step, before its increment.
ScheduleIndex(step) == step

\* train(): one iteration of the inner loop, with the periodic evaluation
\* nested in its log branch and the update at its end.
TrainStep ==
    /\ pc = "training"
    /\ total_step < args.nTrain * args.epochs
    /\ LET N == args.gradient_accumulation_steps
           k == (total_step % args.nTrain) + 1
           inputs == Loader(args.nTrain)[k]
           src == SourcePass(args.model_type, inputs)
           out == IntervenedPass(args.model_type, inputs,
                                 RotatedHiddenStates(src), TRUE)
           step_pass == <<PassRecord("train", k, inputs, src, out)>>
           step_raise == FirstRaise(step_pass)
           doLog == LogAt(total_step, args.log_step)
           doEval == EvalAt(total_step, args.log_step, args.valid_steps)
           dev == Loader(args.nDev)
           dev_pass == EvalPasses("dev", args.model_type, dev)
           \* after the train log row
           disk1 == IF doLog /\ ~args.is_wandb
                    THEN [disk EXCEPT !.train_log =
                            AppendRow(disk.train_log, total_step)]
                    ELSE disk
           wandb1 == IF doLog /\ args.is_wandb
                     THEN Append(wandbCalls, <<"train/loss", total_step>>)
                     ELSE wandbCalls
       IN
       IF step_raise # NoError
       THEN /\ pc' = "crashed"
            /\ error' = step_raise
            /\ passes' = step_pass
            /\ UNCHANGED <<disk, wandbCalls, training>>
            /\ UNCHANGED evalVars
            /\ UNCHANGED learnVars
            /\ UNCHANGED trainVars
       ELSE \E preds \in (IF doEval THEN PredsOf(dev) ELSE {<<>>}) :
         LET total_count == IF doEval THEN TotalCount(dev, preds) ELSE 1
             correct_count == IF doEval THEN CorrectTotal(dev, preds) ELSE 0
             eval_raise == IF ~doEval THEN NoError
                           ELSE IF FirstRaise(dev_pass) # NoError
                           THEN FirstRaise(dev_pass)
                           ELSE IF total_count = 0 THEN "ZeroDivisionError"
                           ELSE NoError
             current_acc == Round2(correct_count, total_count)
             improved == doEval /\ Improves(current_acc, best_eval_acc)
             \* after the periodic evaluation
             disk2 == IF doEval /\ ~args.is_wandb
                      THEN [disk1 EXCEPT !.eval_log =
                              AppendRow(disk1.eval_log, total_step)]
                      ELSE disk1
             wandb2 == IF doEval /\ args.is_wandb
                       THEN Append(wandb1, <<"eval/accuracy", total_step>>)
                       ELSE wandb1
             disk3 == IF improved /\ is_master
                      THEN [disk2 EXCEPT !.best =
                              Checkpoint(value, temperature)]
                      ELSE disk2
             \* the update; its wandb.log of the gradient histogram is not
             \* guarded by is_wandb and is recorded as a tracker call
             mode == IF doEval THEN ModeAfterEval(improved) ELSE training
             doUpdate == UpdateAt(total_step, N)
             grad1 == Backward(grad, total_step)
             index == ScheduleIndex(total_step)
             update_raise == IF doUpdate
                                /\ index + 1 \notin DOMAIN temperature_schedule
                             THEN "IndexError" ELSE NoError
             wandb3 == IF doUpdate
                       THEN Append(wandb2,
                                   <<"train/rotate_layer_gradients", -1>>)
                       ELSE wandb2
         IN
         IF eval_raise # NoError
         THEN /\ pc' = "crashed"
              /\ error' = eval_raise
              /\ passes' = step_pass \o dev_pass
              /\ training' = FALSE
              /\ disk' = disk1
              /\ wandbCalls' = wandb1
              /\ UNCHANGED evalVars
              /\ UNCHANGED learnVars
              /\ UNCHANGED trainVars
         ELSE /\ pc' = IF update_raise # NoError THEN "crashed"
                      ELSE "training"
              /\ error' = update_raise
              /\ passes' = IF doEval THEN step_pass \o dev_pass
                           ELSE step_pass
              /\ training' = mode
              /\ disk' = disk3
              /\ wandbCalls' = wandb3
              /\ IF doEval
                 THEN /\ lastEval' = [kind |-> "dev", step |-> total_step,
                                      acc |-> current_acc,
                                      saved |-> improved /\ is_master,
                                      seen_before |-> maxSeen,
                                      opt_steps |-> optimizer.steps]
                      /\ evalCount' = [evalCount EXCEPT !.dev = @ + 1]
                      /\ evalSteps' = evalSteps \cup {total_step}
                      /\ maxSeen' = IF current_acc > maxSeen
                                    THEN current_acc ELSE maxSeen
                 ELSE UNCHANGED evalVars
              /\ best_eval_acc' = IF improved THEN current_acc
                                  ELSE best_eval_acc
              /\ total_log_step' = IF doLog THEN total_log_step + 1
                                   ELSE total_log_step
              /\ IF doUpdate
                 THEN /\ value' = OptimizerStep(value, grad1,
                                                optimizer.params)
                      /\ optimizer' = [optimizer EXCEPT !.steps = @ + 1]
                      /\ scheduler' = scheduler + 1
                      /\ updates' = Append(updates,
                            [step |-> total_step,
                             grads |-> UNION {grad1[p] :
                                        p \in get_learnable_alignment_parameters},
                             prev |-> IF updates = <<>> THEN -1
                                      ELSE updates[Len(updates)].step,
                             training |-> mode,
                             changed |-> {p \in ParamNames :
                                 OptimizerStep(value, grad1,
                                     optimizer.params)[p] # value[p]}])
                      /\ grad' = [p \in ParamNames |-> {}]
                      /\ IF update_raise = NoError
                         THEN /\ temperature' = temperature_schedule[index + 1]
                              /\ tempPushes' =
                                    Append(tempPushes,
                                           temperature_schedule[index + 1])
                         ELSE UNCHANGED <<temperature, tempPushes>>
                 ELSE UNCHANGED <<value, optimizer, scheduler, updates, grad,
                                  temperature, tempPushes>>
              /\ total_step' = IF update_raise = NoError
                                THEN total_step + 1 ELSE total_step
              /\ trainSteps' = IF update_raise = NoError
                                THEN trainSteps + 1 ELSE trainSteps
              /\ UNCHANGED <<temperature_schedule, lastWrites>>
    /\ UNCHANGED <<cfg, metric, sample>>
    /\ UNCHANGED <<args, diskAtStart, rerun, modelLoaded, requires_grad>>

\* train(): after the loops, the final evaluation over the test set and the
\* 'last' checkpoint.
TrainFinish ==
    /\ pc = "training"
    /\ total_step = args.nTrain * args.epochs
    /\ LET test == Loader(args.nTest)
           test_pass == EvalPasses("test", args.model_type, test)
       IN  \E preds \in PredsOf(test) :
             LET total_count == TotalCount(test, preds)
                 correct_count == CorrectTotal(test, preds)
                 raised == IF FirstRaise(test_pass) # NoError
                           THEN FirstRaise(test_pass)
                           ELSE IF total_count = 0 THEN "ZeroDivisionError"
                           ELSE NoError
                 current_acc == Round2(correct_count, total_count)
             IN
             /\ training' = FALSE
             /\ passes' = test_pass
             /\ IF raised # NoError
                THEN /\ pc' = "crashed"
                     /\ error' = raised
                     /\ UNCHANGED <<disk, wandbCalls, lastWrites>>
                     /\ UNCHANGED evalVars
                ELSE /\ pc' = "done"
                     /\ error' = NoError
                     /\ lastEval' = [kind |-> "test", step |-> total_step,
                                     acc |-> current_acc, saved |-> FALSE,
                                     seen_before |-> maxSeen,
                                     opt_steps |-> optimizer.steps]
                     /\ evalCount' = [evalCount EXCEPT !.test = @ + 1]
                     /\ UNCHANGED <<evalSteps, maxSeen>>
                     /\ wandbCalls' =
                          IF args.is_wandb
                          THEN wandbCalls \o <<<<"test/accuracy", total_step>>,
                                               <<"finish", 0>>>>
                          ELSE wandbCalls
                     /\ disk' =
                          [(IF args.is_wandb THEN disk
                            ELSE [disk EXCEPT !.eval_log =
                                    AppendRow(disk.eval_log, total_step)])
                           EXCEPT !.last = Checkpoint(value, temperature)]
                     /\ lastWrites' = lastWrites + 1
    /\ UNCHANGED <<cfg, metric, sample>>
    /\ UNCHANGED <<args, diskAtStart, rerun, modelLoaded, requires_grad,
                   total_step, total_log_step, best_eval_acc,
                   temperature_schedule, tempPushes, updates, trainSteps>>
    /\ UNCHANGED learnVars

\* The script is started again over the same output directory.
NextRun ==
    /\ pc \in {"done", "skipped", "crashed"}
    /\ ~rerun
    /\ rerun' = TRUE
    /\ ProcessStart
    /\ UNCHANGED <<cfg, metric, sample>>
    /\ UNCHANGED <<args, disk, diskAtStart>>

Next ==
    \/ Startup
    \/ PrealignEval
    \/ TrainBegin
    \/ TrainStep
    \/ TrainFinish
    \/ NextRun

Spec == Init /\ [][Next]_vars

-----------------------------------------------------------------------------
(***************************************************************************)
(* The head of the run script, statement by statement, for every command   *)
(* line and saved configuration; a second start of the script follows a    *)
(* run that was given its name.                                            *)
(***************************************************************************)
\* The variables of the run proper.
runVars == <<args, disk, diskAtStart, rerun, pc, error, modelLoaded,
             requires_grad, value, grad, optimizer, scheduler, temperature,
             training, total_step, total_log_step, best_eval_acc,
             temperature_schedule, tempPushes, updates, lastEval, evalCount,
             evalSteps, maxSeen, passes, wandbCalls, trainSteps, lastWrites>>

DefaultArgs ==
    [model_type |-> "llama", is_wandb |-> FALSE, do_align |-> FALSE,
     log_step |-> 1, valid_steps |-> 1, epochs |-> 1,
     gradient_accumulation_steps |-> 1,
     nTrain |-> 0, nPrealign |-> 0, nDev |-> 0, nTest |-> 0]

ConfigInit ==
    /\ args = DefaultArgs
    /\ FreshProcess
    /\ cfg \in {CfgStart(a, saved, NoPrev) :
                   a \in CliSet, saved \in SavedConfigs}
    /\ metric = NoMetric
    /\ sample = NoSample

\* task = get_task(args)
CfgGetTask ==
    /\ cfg.pc = "start"
    /\ LET r == GetTask(cfg.cli)
       IN  cfg' = IF r.raises # NoRaise
                  THEN [cfg EXCEPT !.pc = "raised", !.raised = r.raises]
                  ELSE [cfg EXCEPT !.pc = "task", !.task = r.task]
    /\ UNCHANGED <<metric, sample>>
    /\ UNCHANGED runVars

\* ... = task.prepare_dataloader(tokenizer, **vars(args))
CfgPrepareDataloader ==
    /\ cfg.pc = "task"
    /\ LET r == PrepareDataloader(cfg.task)
       IN  cfg' = IF r # NoRaise
                  THEN [cfg EXCEPT !.pc = "raised", !.raised = r]
                  ELSE [cfg EXCEPT !.pc = "loaded"]
    /\ UNCHANGED <<metric, sample>>
    /\ UNCHANGED runVars

\* das_config, alignment_config = get_das_and_alignment_config(args)
CfgGetConfig ==
    /\ cfg.pc = "loaded"
    /\ LET r == GetDasAndAlignmentConfig(cfg.cli, cfg.saved)
       IN  cfg' = IF r.raises # NoRaise
                  THEN [cfg EXCEPT !.pc = "raised", !.raised = r.raises]
                  ELSE [cfg EXCEPT !.pc = "configured",
                                   !.das_config = r.das_config,
                                   !.alignment_config = r.alignment_config]
    /\ UNCHANGED <<metric, sample>>
    /\ UNCHANGED runVars

\* model_base_name, run_name, output_dir, and the names the tracker and the
\* Aligner are given further down.
CfgRunName ==
    /\ cfg.pc = "configured"
    /\ LET model_base_name == Basename(Normpath(cfg.cli.model_path))
           run_name == RunName(model_base_name, cfg.cli, cfg.alignment_config)
       IN  cfg' = [cfg EXCEPT !.pc = "named",
                              !.model_base_name = model_base_name,
                              !.run_name = run_name,
                              !.output_dir = OutputDir(cfg.cli, run_name),
                              !.wandb_name = run_name,
                              !.model_name = run_name]
    /\ UNCHANGED <<metric, sample>>
    /\ UNCHANGED runVars

\* The script is started once more, with any command line, over the same
\* saved configuration.
CfgNextRun ==
    /\ cfg.pc = "named"
    /\ ~cfg.prev.ran
    /\ \E a \in CliSet :
         cfg' = CfgStart(a, cfg.saved,
                         [ran |-> TRUE,
                          model_type |-> cfg.cli.model_type,
                          model_base_name |-> cfg.model_base_name,
                          task_name |-> cfg.cli.task_name,
                          seed |-> cfg.cli.seed,
                          alignment_config |-> cfg.alignment_config,
                          run_name |-> cfg.run_name,
                          output_dir |-> cfg.output_dir,
                          wandb_name |-> cfg.wandb_name,
                          model_name |-> cfg.model_name])
    /\ UNCHANGED <<metric, sample>>
    /\ UNCHANGED runVars

ConfigNext ==
    \/ CfgGetTask
    \/ CfgPrepareDataloader
    \/ CfgGetConfig
    \/ CfgRunName
    \/ CfgNextRun

ConfigSpec == ConfigInit /\ [][ConfigNext]_vars

-----------------------------------------------------------------------------
(***************************************************************************)
(* The accuracy computation applied to an evaluation set and to the same   *)
(* set with one batch shuffled or with its batches in another order.       *)
(***************************************************************************)
MetricInit ==
    /\ args = DefaultArgs
    /\ FreshProcess
    /\ cfg = NoCfg
    /\ sample = NoSample
    /\ \E n \in 1..MaxMetricBatches :
         \E loader \in LoadersOf(n) :
           \E preds \in PredsOf(loader) :
             metric = [NoMetric EXCEPT !.pc = "input", !.loader = loader,
                                       !.preds = preds]

\* One evaluation pass over the set as given.
MetricEvaluate ==
    /\ metric.pc = "input"
    /\ metric' = [metric EXCEPT
                    !.pc = "evaluated",
                    !.first = Counts(metric.loader, metric.preds),
                    !.first_metrics =
                        compute_metrics(metric.preds,
                            [k \in DOMAIN metric.loader |->
                                metric.loader[k].labels])]
    /\ UNCHANGED <<cfg, sample>>
    /\ UNCHANGED runVars

\* The pass repeated over loader2 and preds2.
SecondPass(loader2, preds2) ==
    metric' = [metric EXCEPT
                 !.pc = "reordered",
                 !.loader2 = loader2,
                 !.preds2 = preds2,
                 !.second = Counts(loader2, preds2),
                 !.second_metrics =
                     compute_metrics(preds2,
                         [k \in DOMAIN loader2 |-> loader2[k].labels])]

\* The examples of batch b are permuted, targets and predictions together.
MetricShuffleBatch ==
    /\ metric.pc = "evaluated"
    /\ \E b \in DOMAIN metric.loader :
         \E q \in Perms(DOMAIN metric.loader[b].labels) :
           LET labels2 == [i \in DOMAIN metric.loader[b].labels |->
                              metric.loader[b].labels[q[i]]]
           IN  SecondPass(
                 [metric.loader EXCEPT ![b].labels = labels2,
                                       ![b].output_only_labels = labels2],
                 [metric.preds EXCEPT ![b] =
                     [i \in DOMAIN metric.preds[b] |-> metric.preds[b][q[i]]]])
    /\ UNCHANGED <<cfg, sample>>
    /\ UNCHANGED runVars

\* The batches are served in another order.
MetricReorderBatches ==
    /\ metric.pc = "evaluated"
    /\ \E p \in Perms(DOMAIN metric.loader) :
         SecondPass([k \in DOMAIN metric.loader |-> metric.loader[p[k]]],
                    [k \in DOMAIN metric.preds |-> metric.preds[p[k]]])
    /\ UNCHANGED <<cfg, sample>>
    /\ UNCHANGED runVars

MetricNext ==
    \/ MetricEvaluate
    \/ MetricShuffleBatch
    \/ MetricReorderBatches

MetricSpec == MetricInit /\ [][MetricNext]_vars

-----------------------------------------------------------------------------
(***************************************************************************)
(* One iteration of alignment_example_sampler, under either source         *)
(* sampler.                                                                *)
(***************************************************************************)
SamplerInit ==
    /\ args = DefaultArgs
    /\ FreshProcess
    /\ cfg = NoCfg
    /\ metric = NoMetric
    /\ \E name \in {"continent1_source_sampler", "output_rep_source_sampler"} :
         sample = [NoSample EXCEPT !.pc = "start", !.sampler = name]

\* The base countries and the counterfactual label are drawn.
SampleBase ==
    /\ sample.pc = "start"
    /\ \E c1 \in countries, c2 \in countries,
          label \in {_YES_LABEL, _NO_LABEL} :
         sample' = [sample EXCEPT !.pc = "base", !.base_country1 = c1,
                                  !.base_country2 = c2,
                                  !.ctf_label_str = label]
    /\ UNCHANGED <<cfg, metric>>
    /\ UNCHANGED runVars

\* source_sampler(base_country1, base_country2, ctf_label_str)
SampleSource ==
    /\ sample.pc = "base"
    /\ \E r \in SourceSampler(sample.sampler, sample.base_country1,
                              sample.base_country2, sample.ctf_label_str) :
         sample' = [sample EXCEPT
                      !.pc = IF r.raised # NoRaise THEN "raised"
                             ELSE "sampled",
                      !.source = r]
    /\ UNCHANGED <<cfg, metric>>
    /\ UNCHANGED runVars

SamplerNext ==
    \/ SampleBase
    \/ SampleSource

SamplerSpec == SamplerInit /\ [][SamplerNext]_vars

-----------------------------------------------------------------------------
(***************************************************************************)
(* Claims.                                                                 *)
(***************************************************************************)
target_total_step == args.nTrain * args.epochs
EndTemperature == Bf16(temperature_end, 10)
IsAlignmentName(p) ==
    Contains(p, "rotate_layer") \/ Contains(p, "intervention_boundaries")
\* train() has left its loops: every batch of every epoch was processed.
EpochsFinished ==
    /\ pc \in {"done", "crashed"}
    /\ args.do_align
    /\ target_total_step >= 1
    /\ temperature_schedule # <<>>
    /\ total_step = target_total_step

\* C1: in every training step and every batch of the periodic and final
\* evaluations, the source hidden states handed to the intervened pass come
\* from a forward pass over the batch's source_input_ids.
C1_SourcePassOverSourceIds ==
    \A k \in DOMAIN passes :
        (passes[k].phase \in {"train", "dev", "test"}
         /\ passes[k].intervened_pass.call # "none")
        => /\ passes[k].source_pass.input_ids = passes[k].source_input_ids
           /\ passes[k].intervened_pass.kwargs.source_hidden_states
                = passes[k].source_input_ids

\* C2: every optimizer step applies a gradient to which every batch since
\* the previous optimizer step contributed; no batch's loss is dropped.
C2_GradientsAccumulate ==
    \A i \in DOMAIN updates :
        \A b \in (updates[i].prev + 1)..updates[i].step :
            b \in updates[i].grads

\* C3: every completed step s > 0 with s % valid_steps = 0 ran a dev
\* evaluation, whatever log_step is.
C3_EvalEveryValidSteps ==
    pc \in {"training", "done"}
    => \A s \in 1..(total_step - 1) :
          s % args.valid_steps = 0 => s \in evalSteps

\* C4: the 'best' checkpoint is (re)written exactly at the periodic
\* evaluations whose accuracy is strictly above every earlier one of the run:
\* best_eval_acc is the highest accuracy seen and never decreases, the first
\* evaluation always writes, and a tie leaves the checkpoint untouched.
C4_BestOnStrictImprovement ==
    [][ /\ (pc' # "init") => best_eval_acc' >= best_eval_acc
        /\ (disk'.best # disk.best)
            => (evalCount'.dev = evalCount.dev + 1 /\ lastEval'.saved)
        /\ (evalCount'.dev = evalCount.dev + 1)
            => /\ lastEval'.saved <=> (lastEval'.acc > maxSeen)
               /\ lastEval'.saved
                    => disk'.best = Checkpoint(value, temperature)
               /\ ~lastEval'.saved => disk'.best = disk.best
               /\ best_eval_acc' = maxSeen'
               /\ best_eval_acc' >= best_eval_acc
               /\ evalCount.dev = 0 => lastEval'.saved
      ]_vars

\* C4 witness: a second evaluation tied the first one at accuracy 0, which
\* had written the checkpoint.
C4_Witness ==
    /\ evalCount.dev >= 2
    /\ lastEval.kind = "dev"
    /\ lastEval.acc = 0
    /\ lastEval.seen_before = 0
    /\ ~lastEval.saved
    /\ disk.best.exists

\* C5: once train() has processed all epochs, one final evaluation over the
\* test set has run and the 'last' checkpoint was written once, holding the
\* alignment parameters and temperature of after the final optimizer step.
C5_LastWrittenAfterEpochs ==
    EpochsFinished
    => /\ evalCount.test = 1
       /\ lastWrites = 1
       /\ disk.last = Checkpoint(value, temperature)

\* C6: a run that finds the 'last' checkpoint trains nothing, evaluates
\* nothing, does not load the model, and leaves every file as it found it.
C6_SkipWhenLastExists ==
    (pc # "init" /\ diskAtStart.last.exists)
    => /\ pc = "skipped"
       /\ trainSteps = 0
       /\ evalCount = [prealign |-> 0, dev |-> 0, test |-> 0]
       /\ ~modelLoaded
       /\ lastWrites = 0
       /\ disk = diskAtStart

\* C6 witness: the second run was skipped over the checkpoints of a first
\* run that had written both.
C6_Witness ==
    /\ rerun
    /\ pc = "skipped"
    /\ disk.last.exists
    /\ disk.best.exists

\* C7: no accuracy computation raises on an empty evaluation set.
C7_EmptySetDoesNotRaise ==
    ~(pc = "crashed" /\ error = "ZeroDivisionError")

\* C8: once the final training step has completed, the model holds exactly
\* temperature_end.
C8_FinalTemperatureIsEnd ==
    (pc \in {"training", "done"} /\ target_total_step >= 1
     /\ total_step = target_total_step)
    => temperature = EndTemperature

\* C9: the values pushed by set_temperature never increase.
C9_TemperatureNonIncreasing ==
    \A i \in 1..(Len(tempPushes) - 1) : tempPushes[i + 1] <= tempPushes[i]

\* C9 witness: several pushes, the last strictly below the first.
C9_Witness ==
    /\ Len(tempPushes) >= 3
    /\ tempPushes[Len(tempPushes)] < tempPushes[1]

\* C10: after the freezing pass every parameter that is not a rotation or
\* boundary parameter has gradients disabled; the optimizer holds rotation
\* and boundary parameters only, and no other parameter ever changes value.
C10_OnlyAlignmentParametersChange ==
    /\ [](modelLoaded
          => /\ \A p \in ParamNames :
                    ~IsAlignmentName(p) => ~requires_grad[p]
             /\ \A p \in optimizer.params : IsAlignmentName(p)
             /\ \A i \in DOMAIN updates :
                    \A p \in updates[i].changed : IsAlignmentName(p))
    /\ [][\A p \in ParamNames :
            (~IsAlignmentName(p) /\ modelLoaded') => value'[p] = value[p]]_vars

\* C10 witness: after optimizer steps, an evaluation and a checkpoint write,
\* the rotation parameters have moved.
C10_Witness ==
    /\ optimizer.steps >= 2
    /\ disk.best.exists
    /\ \E p \in ParamNames : Contains(p, "rotate_layer") /\ value[p] >= 2

\* The head of the script has the configuration in hand.
Configured == cfg.pc \in {"configured", "named"}

\* C11: get_das_and_alignment_config builds the alignment config field by
\* field: layer, token_range[0] and token_range[1] each equal the command
\* line value (layer, token_start, token_end) when that value is >= 0, 0
\* included, and the value saved in das_config otherwise; each field is
\* overridden independently, and the loaded das_config is left as saved.
C11_OverrideFieldByField ==
    Configured =>
        /\ cfg.alignment_config.layer =
               (IF cfg.cli.layer >= 0 THEN cfg.cli.layer
                ELSE cfg.saved.das_layer)
        /\ cfg.alignment_config.token_range[1] =
               (IF cfg.cli.token_start >= 0 THEN cfg.cli.token_start
                ELSE cfg.saved.das_token_range[1])
        /\ cfg.alignment_config.token_range[2] =
               (IF cfg.cli.token_end >= 0 THEN cfg.cli.token_end
                ELSE cfg.saved.das_token_range[2])
        /\ cfg.das_config = cfg.saved

\* Layer and token_end overridden by 0, token_start left as saved.
C11_Witness ==
    /\ cfg.pc = "configured"
    /\ cfg.saved.das_layer = das_layer
    /\ cfg.cli.layer = 0
    /\ cfg.cli.token_start = -1
    /\ cfg.cli.token_end = 0
    /\ cfg.alignment_config = [layer |-> 0, token_range |-> <<80, 0>>]

\* C12: every alignment config that configuration loading hands on has
\* layer >= 0 and token_range start < end; a malformed range is rejected at
\* configuration-load time, never returned.
C12_ConfigWellFormed ==
    Configured =>
        /\ cfg.alignment_config.layer >= 0
        /\ cfg.alignment_config.token_range[1]
             < cfg.alignment_config.token_range[2]

\* The task name or the model type of the command line is unsupported.
Unsupported(a) ==
    \/ ~(Contains(a.task_name, "price_tagging")
         \/ Contains(a.task_name, "continent_matching"))
    \/ a.model_type \notin {"llama", "t5"}

\* C13: with an unsupported task name or model type the script stops in
\* get_task or get_das_and_alignment_config with a ValueError that names the
\* unsupported value; get_task never returns None and no other exception
\* type ends the startup.
C13_UnsupportedRaisesValueError ==
    (Unsupported(cfg.cli) /\ cfg.pc \notin {"idle", "start"}) =>
        /\ cfg.pc = "raised"
        /\ cfg.raised.type = "ValueError"
        /\ cfg.raised.names \in {cfg.cli.task_name, <<cfg.cli.model_type>>}
        /\ cfg.task # "None"

\* Two starts of the script agree on the five values of the run identity.
SameIdentity ==
    /\ cfg.prev.model_base_name = cfg.model_base_name
    /\ cfg.prev.task_name = cfg.cli.task_name
    /\ cfg.prev.seed = cfg.cli.seed
    /\ cfg.prev.alignment_config = cfg.alignment_config

TrainCompleted == pc = "done" /\ args.do_align

\* C15: every run whose train() call completes leaves a 'best' and a 'last'
\* checkpoint in its run directory, each with the rotation state, the
\* boundary parameters and the temperature, for every T >= 1 and every
\* positive valid_steps and log_step, T <= valid_steps included.
C15_BestAndLastAfterTrain ==
    TrainCompleted =>
        /\ disk.last.exists
        /\ disk.best.exists

\* C15, amended: a completed train() leaves the 'last' checkpoint, holding
\* the final rotation state, boundary parameters and temperature; the
\* 'best' checkpoint is there when a periodic evaluation ran during
\* training, and a run without one writes no 'best' file.
C15_LastAlwaysBestIfEvaluated ==
    TrainCompleted =>
        /\ disk.last = Checkpoint(value, temperature)
        /\ disk.last.exists
        /\ evalCount.dev >= 1 => disk.best.exists
        /\ evalCount.dev = 0 => disk.best = diskAtStart.best

\* A run of T = 2 steps with valid_steps = 2 that finished without 'best'.
C15_Witness ==
    /\ TrainCompleted
    /\ target_total_step = 2
    /\ args.valid_steps = 2
    /\ trainSteps = 2
    /\ evalCount.dev = 0
    /\ disk.last.exists
    /\ ~disk.best.exists

\* C16: the accuracy is order-independent: with the examples of a batch
\* permuted (targets and predictions together) or the batches served in
\* another order, correct_count, total_count and the rounded accuracy are
\* the same, and 0 <= correct_count <= total_count.
C16_AccuracyOrderIndependent ==
    /\ metric.pc \in {"evaluated", "reordered"} =>
          /\ 0 <= metric.first.correct_count
          /\ metric.first.correct_count <= metric.first.total_count
    /\ metric.pc = "reordered" =>
          /\ metric.second = metric.first
          /\ metric.second_metrics = metric.first_metrics
          /\ 0 <= metric.second.correct_count
          /\ metric.second.correct_count <= metric.second.total_count

\* A set with right and wrong answers, evaluated again in another order.
C16_Witness ==
    /\ metric.pc = "reordered"
    /\ Len(metric.loader) = 2
    /\ metric.loader2 # metric.loader
    /\ metric.preds2 # metric.preds
    /\ metric.first.correct_count = 1
    /\ metric.first.total_count = 3

\* C17: a run that is not skipped goes INIT, PREALIGN_EVAL, then training
\* steps with periodic evaluations among them, FINAL_EVAL, DONE: nothing of
\* training before prealign_eval has completed, no training step and no
\* periodic evaluation after the final evaluation, and a prealign accuracy
\* however low leads into train() whenever alignment is requested.
C17_PhaseOrder ==
    /\ [](/\ (\/ pc \in {"prealigned", "training"}
              \/ trainSteps > 0
              \/ evalCount.dev > 0
              \/ evalCount.test > 0) => evalCount.prealign = 1
          /\ evalCount.dev > 0 => trainSteps > 0
          /\ evalCount.test > 0 => pc = "done"
          /\ pc = "skipped" =>
                /\ evalCount = [prealign |-> 0, dev |-> 0, test |-> 0]
                /\ trainSteps = 0)
    /\ [][/\ (evalCount.test > 0 /\ pc' # "init") =>
                /\ trainSteps' = trainSteps
                /\ evalCount' = evalCount
          /\ (evalCount'.prealign > evalCount.prealign /\ args.do_align) =>
                pc' = "prealigned"
          /\ pc = "prealigned" => pc' \in {"training", "crashed"}
          /\ trainSteps' > trainSteps => pc = "training"]_vars

\* The first training step of a run whose prealign accuracy was 0.
C17_Witness ==
    /\ pc = "training"
    /\ trainSteps = 1
    /\ lastEval.kind = "prealign"
    /\ lastEval.acc = 0

\* C18: each metric goes to one sink chosen by is_wandb: without tracking
\* prealign_eval and train() never call the tracker, and with tracking no
\* text log row is written.
C18_OneSink ==
    /\ ~args.is_wandb => wandbCalls = <<>>
    /\ args.is_wandb =>
          /\ disk.prealign_log.rows = <<>>
          /\ disk.train_log.rows = <<>>
          /\ disk.eval_log.rows = <<>>

\* C19: for llama and t5 alike the Aligner reads only keys of the batch
\* schema, so a batch of prepare_dataloader never causes a missing-key
\* failure.
C19_NoMissingKey == ~(pc = "crashed" /\ error = "KeyError")

\* C20: call_model has one contract for both families: with is_train=True
\* the forward output, with is_train=False (every evaluation's prediction
\* call) generated sequences, labels passed or not.
C20_UniformContract ==
    \A k \in DOMAIN passes :
        /\ passes[k].intervened_pass.raises = NoError =>
              passes[k].intervened_pass.call =
                  (IF passes[k].phase = "train" THEN "forward" ELSE "generate")
        /\ passes[k].source_pass.call \in {"none", "forward"}

\* The update group is due at the current step counter.
UpdateDue ==
    /\ total_step % args.gradient_accumulation_steps = 0
    /\ ~(args.gradient_accumulation_steps > 1 /\ total_step = 0)

\* C21: backward, optimizer step, scheduler step, gradient zeroing and the
\* temperature push happen together, in the training steps whose counter s
\* has s % N = 0 and not (N > 1 and s = 0), and in no other: optimizer and
\* scheduler steps are equal in number, set_temperature is called once per
\* optimizer step plus once before the loop, and every backward starts from
\* zero gradients.
C21_UpdateGroup ==
    /\ [](/\ scheduler = optimizer.steps
          /\ Len(updates) = optimizer.steps
          /\ tempPushes = <<>> => optimizer.steps = 0
          /\ tempPushes # <<>> => Len(tempPushes) = optimizer.steps + 1
          /\ \A p \in ParamNames : grad[p] = {}
          /\ \A i \in DOMAIN updates : updates[i].grads = {updates[i].step})
    /\ [][total_step' = total_step + 1 =>
            IF UpdateDue
            THEN /\ optimizer'.steps = optimizer.steps + 1
                 /\ scheduler' = scheduler + 1
                 /\ Len(tempPushes') = Len(tempPushes) + 1
                 /\ updates'[Len(updates')].step = total_step
            ELSE UNCHANGED <<optimizer, scheduler, tempPushes, updates,
                             value, grad, temperature>>]_vars

\* Four steps with N = 2: the one update is the one of step 2.
C21_Witness ==
    /\ args.gradient_accumulation_steps = 2
    /\ total_step = 4
    /\ optimizer.steps = 1
    /\ scheduler = 1
    /\ Len(tempPushes) = 2
    /\ updates[1].step = 2

\* C22: after the optimizer step of training step s the model holds the
\* next schedule value: with gradient_accumulation_steps = 1 the forward
\* passes of step s+1 run at schedule[s+1], and no two consecutive steps at
\* the same schedule index.
C22_NextTemperatureAfterStep ==
    (/\ pc = "training"
     /\ args.gradient_accumulation_steps = 1
     /\ total_step < target_total_step) =>
        temperature = temperature_schedule[total_step + 1]

\* C23: the model is in train mode whenever a training forward pass, a
\* backward or an optimizer step runs: an evaluation puts it in eval mode,
\* and the periodic one puts it back in train mode before the update of
\* its own step and before the next batch, best accuracy improved or not.
C23_TrainModeWhileTraining ==
    /\ [](/\ pc = "training" => training
          /\ \A i \in DOMAIN updates : updates[i].training
          /\ pc \in {"prealigned", "done"} => ~training
          /\ (pc = "crashed" /\ error = "ZeroDivisionError") => ~training)
    /\ [][evalCount'.dev > evalCount.dev =>
            /\ training'
            /\ UpdateDue => updates'[Len(updates')].training]_vars

\* A periodic evaluation that did not improve, and the update of its step.
C23_Witness ==
    /\ pc = "training"
    /\ training
    /\ lastEval.kind = "dev"
    /\ ~lastEval.saved
    /\ updates # <<>>
    /\ updates[Len(updates)].step = lastEval.step
    /\ updates[Len(updates)].training

\* C24: prealign_eval runs the model without intervention and without an
\* effect on the alignment state: no batch is given source hidden states
\* or intervention ids, and rotation, boundaries, temperature, gradients,
\* optimizer and both checkpoint files are as before.
C24_PrealignHasNoIntervention ==
    [][pc = "constructed" =>
         /\ value' = value
         /\ temperature' = temperature
         /\ grad' = grad
         /\ optimizer' = optimizer
         /\ disk'.best = disk.best
         /\ disk'.last = disk.last
         /\ \A k \in DOMAIN passes' :
               /\ passes'[k].source_pass = NoCall
               /\ passes'[k].intervened_pass.kwargs = NoKwargs]_vars

\* A prealign pass of a llama run that got through.
C24_Witness ==
    /\ pc = "prealigned"
    /\ evalCount.prealign = 1
    /\ Len(passes) = 1
    /\ passes[1].phase = "prealign"
    /\ passes[1].intervened_pass.call = "forward"
    /\ passes[1].intervened_pass.kwargs = NoKwargs

\* C25: continent1_source_sampler returns normally for every pair of base
\* countries and both labels: source country1 is on base_country2's
\* continent exactly when the label is 'Yes', and the source label is 'Yes'
\* exactly when the two source countries share a continent.
C25_Continent1SamplerReturns ==
    (/\ sample.sampler = "continent1_source_sampler"
     /\ sample.pc \in {"sampled", "raised"}) =>
        /\ sample.pc = "sampled"
        /\ sample.source.raised = NoRaise
        /\ (country_to_continent[sample.source.source_country1]
              = country_to_continent[sample.base_country2])
           <=> (sample.ctf_label_str = _YES_LABEL)
        /\ (sample.source.source_label = _YES_LABEL)
           <=> (country_to_continent[sample.source.source_country1]
                  = country_to_continent[sample.source.source_country2])

\* C26: a 'best' checkpoint holds the alignment state its accuracy was
\* measured on: the periodic evaluation of step s runs before the update
\* of step s, and between its start and the write there is no optimizer
\* step and no change of temperature.
C26_BestHoldsEvaluatedState ==
    /\ [](lastEval.kind = "dev" =>
            lastEval.opt_steps =
                Cardinality({i \in DOMAIN updates :
                                updates[i].step < lastEval.step}))
    /\ [][disk'.best # disk.best =>
            /\ lastEval'.kind = "dev"
            /\ lastEval'.saved
            /\ lastEval'.step = total_step
            /\ lastEval'.opt_steps = optimizer.steps
            /\ disk'.best.exists
            /\ disk'.best.rotate_layer = get_rotation_parameters(value)
            /\ disk'.best.intervention_boundaries
                 = get_boundary_parameters(value)
            /\ disk'.best.temperature = temperature]_vars

\* A step that evaluated, saved 'best' and then updated: the file holds the
\* parameters from before the update.
C26_Witness ==
    /\ lastEval.kind = "dev"
    /\ lastEval.saved
    /\ total_step = lastEval.step + 1
    /\ optimizer.steps = lastEval.opt_steps + 1
    /\ disk.best.exists
    /\ disk.best.rotate_layer # get_rotation_parameters(value)
    /\ disk.best.temperature # temperature

\* C27: total_step starts at 0, grows by 1 with every training batch,
\* logged, evaluated, updated or not, and is T = len(train_dataloader) *
\* epochs when the loop ends; for T >= 1 no read of the temperature
\* schedule is out of range.
C27_StepCounter ==
    /\ [](/\ pc = "training" =>
                /\ total_step = trainSteps
                /\ total_step <= target_total_step
          /\ TrainCompleted =>
                /\ total_step = target_total_step
                /\ trainSteps = target_total_step
          /\ target_total_step >= 1 => error # "IndexError"
          /\ Len(tempPushes) <= target_total_step + 1)
    /\ [][/\ (pc = "prealigned" /\ pc' = "training") => total_step' = 0
          /\ (pc = "training" /\ pc' = "training") =>
                /\ total_step' = total_step + 1
                /\ trainSteps' = trainSteps + 1
          /\ (pc = "training" /\ pc' = "done") =>
                total_step = target_total_step]_vars

\* Four batches with N = 2 and log_step = 2, run to the end.
C27_Witness ==
    /\ TrainCompleted
    /\ total_step = 4
    /\ args.gradient_accumulation_steps = 2
    /\ args.log_step = 2
    /\ optimizer.steps = 1

====
